---- MODULE Spec2Model ----
(***************************************************************************)
(* Webinar dashboard (src/dataviz2.py): one run of the Streamlit script.   *)
(*                                                                         *)
(* The script is a straight-line program: load_data, create_full_report_pdf*)
(* on a copy of the record set, the KPI block, the derived fields, and the *)
(* five chart sections.  Each of these is one action below; pc is the      *)
(* position of the script.                                                 *)
(*                                                                         *)
(* Text cells on which the code works character by character (str.title,   *)
(* str.lower, str.split, str.strip, str.replace, int(), sorting of group    *)
(* keys) are sequences of one-character strings, and so are all other text *)
(* cells.  A missing text cell (NaN) is NaN.                               *)
(*                                                                         *)
(* Calls that only draw (matplotlib, plotly, fpdf, st.metric, ...) are not *)
(* modelled beyond the table they are given and the exception pandas       *)
(* raises when the table has nothing to draw.  Line 351 of the source is   *)
(* indented by three blanks; it is read as a statement of the enclosing    *)
(* block, like its neighbours.                                             *)
(***************************************************************************)
EXTENDS Integers, Sequences, FiniteSets, TLC

\* ------------------------------------------------------------------ bounds
\* Largest number of rows of a workbook.
MaxRows == 2

\* ------------------------------------------------------------- characters
\* The characters of the modelled cells, in code-point order.
Chars ==
  << " ", ",", "-",
     "0", "1", "2", "3", "4", "5", "6", "7", "8", "9",
     "A", "B", "C", "D", "E", "F", "G", "H", "I", "J", "K", "L", "M",
     "N", "O", "P", "Q", "R", "S", "T", "U", "V", "W", "X", "Y", "Z",
     "a", "b", "c", "d", "e", "f", "g", "h", "i", "j", "k", "l", "m",
     "n", "o", "p", "q", "r", "s", "t", "u", "v", "w", "x", "y", "z" >>

\* The code point order of the characters, as a table.
OrdTable == [c \in {Chars[i] : i \in 1..Len(Chars)} |->
               CHOOSE i \in 1..Len(Chars) : Chars[i] = c] @@ <<>>

Ord(c) == OrdTable[c]

Digits == {"0", "1", "2", "3", "4", "5", "6", "7", "8", "9"}

UpperChars == {Chars[i] : i \in OrdTable["A"]..OrdTable["Z"]}

LowerChars == {Chars[i] : i \in OrdTable["a"]..OrdTable["z"]}

IsDigit(c) == c \in Digits

IsUpperChar(c) == c \in UpperChars

IsLowerChar(c) == c \in LowerChars

\* chr(ord(c) + 32) and chr(ord(c) - 32) for the letters, as tables.
LowerTable == [c \in UpperChars |-> Chars[OrdTable[c] - OrdTable["A"] + OrdTable["a"]]] @@ <<>>

UpperTable == [c \in LowerChars |-> Chars[OrdTable[c] - OrdTable["a"] + OrdTable["A"]]] @@ <<>>

LowerChar(c) == IF IsUpperChar(c) THEN LowerTable[c] ELSE c

UpperChar(c) == IF IsLowerChar(c) THEN UpperTable[c] ELSE c

\* A missing text cell (pandas NaN / Python None): no text equals it.
NaN == <<"NaN">>

\* str.lower()
StrLower(s) == [i \in 1..Len(s) |-> LowerChar(s[i])] \o <<>>

\* str.title(): a cased character that follows a cased character is lowered,
\* any other cased character is raised.
StrTitle(s) ==
  [i \in 1..Len(s) |->
     IF i > 1 /\ (IsUpperChar(s[i-1]) \/ IsLowerChar(s[i-1]))
     THEN LowerChar(s[i])
     ELSE UpperChar(s[i])] \o <<>>

RECURSIVE LStrip(_)
LStrip(s) == IF s # <<>> /\ Head(s) = " " THEN LStrip(Tail(s)) ELSE s

RECURSIVE RStrip(_)
RStrip(s) ==
  IF s # <<>> /\ s[Len(s)] = " " THEN RStrip(SubSeq(s, 1, Len(s) - 1)) ELSE s

\* str.strip()
StrStrip(s) == LStrip(RStrip(s))

\* str.split(sep)[0]: the text before the first occurrence of sep.
RECURSIVE SplitFirst(_, _)
SplitFirst(s, sep) ==
  IF s = <<>> \/ Head(s) = sep THEN <<>>
  ELSE <<Head(s)>> \o SplitFirst(Tail(s), sep)

IsPrefix(p, s) == Len(p) <= Len(s) /\ SubSeq(s, 1, Len(p)) = p

\* str.replace(old, ''): every occurrence of old removed, left to right.
RECURSIVE StrRemove(_, _)
StrRemove(s, old) ==
  IF s = <<>> THEN <<>>
  ELSE IF IsPrefix(old, s)
       THEN StrRemove(SubSeq(s, Len(old) + 1, Len(s)), old)
       ELSE <<Head(s)>> \o StrRemove(Tail(s), old)

\* int(text) succeeds: digits, possibly between blanks.
IsIntText(s) ==
  LET t == StrStrip(s)
  IN  t # <<>> /\ \A i \in 1..Len(t) : IsDigit(t[i])

RECURSIVE DigitsValue(_)
DigitsValue(t) ==
  IF t = <<>> THEN 0
  ELSE 10 * DigitsValue(SubSeq(t, 1, Len(t) - 1)) + (Ord(t[Len(t)]) - Ord("0"))

\* int(text)
IntOf(s) == DigitsValue(StrStrip(s))

\* str(n) of a natural number.
RECURSIVE IntStr(_)
IntStr(n) ==
  IF n < 10 THEN <<Chars[Ord("0") + n]>>
  ELSE IntStr(n \div 10) \o <<Chars[Ord("0") + (n % 10)]>>

\* Python's order of two texts: by code point, a proper prefix first.
RECURSIVE StrLess(_, _)
StrLess(a, b) ==
  IF b = <<>> THEN FALSE
  ELSE IF a = <<>> THEN TRUE
  ELSE IF Head(a) = Head(b) THEN StrLess(Tail(a), Tail(b))
  ELSE Ord(Head(a)) < Ord(Head(b))

\* ---------------------------------------------------------------- columns
\* Column names after load_data's strip/lower (line 24); the workbooks of the
\* model carry their headers in that form already.
WebinarId == "webinar id"

ActualStartTime == "actual start time"

Registrations == "registrations"

AttendeeType == "attendee type"

Attended == "attended"

Workforce == "workforce"

TimeInSession == "time in session (minutes)"

ActualDuration == "actual duration (minutes)"

Organization == "organization"

Region == "region"

Year == "year"

Month == "month"

YearMonth == "yearmonth"

FacilityType == "facility_type"

AllCols ==
  { WebinarId, ActualStartTime, Registrations, AttendeeType, Attended, Workforce,
    TimeInSession, ActualDuration, Organization, Region, Year, Month }

numeric_cols == { ActualDuration, TimeInSession }

\* ------------------------------------------------------------------ texts
T_Attendee == <<"A", "t", "t", "e", "n", "d", "e", "e">>

T_Guest == <<"G", "u", "e", "s", "t">>

T_attendee == <<"a", "t", "t", "e", "n", "d", "e", "e">>

T_Yes == <<"Y", "e", "s">>

T_nan == <<"n", "a", "n">>

T_RegionPrefix == <<"R", "e", "g", "i", "o", "n", " ">>

NursingFacility == <<"N", "u", "r", "s", "i", "n", "g", " ", "F", "a", "c", "i", "l", "i", "t", "y">>

NonNursingFacility == <<"N", "o", "n", "-", "N", "u", "r", "s", "i", "n", "g", " ", "F", "a", "c", "i", "l", "i", "t", "y">>

MentalHealth == <<"M", "e", "n", "t", "a", "l", " ", "H", "e", "a", "l", "t", "h", " ", "T", "r", "e", "a", "t", "m", "e", "n", "t">>

SubstanceUse == <<"S", "u", "b", "s", "t", "a", "n", "c", "e", " ", "U", "s", "e", " ", "T", "r", "e", "a", "t", "m", "e", "n", "t">>

Other == <<"O", "t", "h", "e", "r">>

QinQio == <<"Q", "I", "N", "-", "Q", "I", "O">>

\* ", " and "," as the source writes them between the categories.
CS == <<",", " ">>

C0 == <<",">>

\* nursing_list, lines 259-265, entry by entry.
nursing_list ==
  << MentalHealth \o CS \o NursingFacility,
     MentalHealth \o CS \o NursingFacility \o CS \o SubstanceUse,
     MentalHealth \o CS \o SubstanceUse \o CS \o NursingFacility,
     NursingFacility,
     NursingFacility \o CS \o MentalHealth,
     NursingFacility \o CS \o MentalHealth \o CS \o Other,
     NursingFacility \o CS \o MentalHealth \o CS \o SubstanceUse,
     NursingFacility \o CS \o Other,
     NursingFacility \o CS \o SubstanceUse,
     NursingFacility \o CS \o SubstanceUse \o CS \o MentalHealth,
     NursingFacility \o C0 \o MentalHealth \o C0 \o QinQio,
     NursingFacility \o C0 \o MentalHealth \o C0 \o SubstanceUse \o C0 \o QinQio,
     NursingFacility \o C0 \o QinQio,
     NursingFacility \o C0 \o QinQio \o C0 \o MentalHealth,
     NursingFacility \o C0 \o QinQio \o C0 \o Other,
     Other \o CS \o NursingFacility,
     SubstanceUse \o CS \o NursingFacility >>

\* InList with both sides stripped and lower-cased before they are compared.
InListIgnoringCase(x, list) ==
  \E i \in 1..Len(list) : StrLower(StrStrip(list[i])) = StrLower(StrStrip(x))

\* x in nursing_list / Series.isin(nursing_list): equality with an entry.
InList(x, list) == \E i \in 1..Len(list) : list[i] = x

\* -------------------------------------------------------------- workbooks
\* The absent value: a function that returned None, a table not yet computed.
None == [none |-> TRUE]

\* A cell of a numeric column as the workbook holds it: a number, a text, or
\* nothing.
NumCell(n) == [tag |-> "num", val |-> n]

TextCell(s) == [tag |-> "text", val |-> s]

BlankCell == [tag |-> "nan", val |-> 0]

\* One row of a workbook with every column.
MkRow(wid, start, reg, atype, att, wf, tis, dur, org, rgn, y, m) ==
  [c \in AllCols |->
     CASE c = WebinarId -> wid
       [] c = ActualStartTime -> start
       [] c = Registrations -> reg
       [] c = AttendeeType -> atype
       [] c = Attended -> att
       [] c = Workforce -> wf
       [] c = TimeInSession -> tis
       [] c = ActualDuration -> dur
       [] c = Organization -> org
       [] c = Region -> rgn
       [] c = Year -> y
       [] c = Month -> m]

\* The sequences of at most n elements of S.
SeqsUpTo(S, n) == UNION { [1..k -> S] : k \in 0..n }

\* The workbooks with the columns cols and at most MaxRows rows out of rows.
Workbooks(rows, cols) ==
  { [cols |-> cols, rows |-> [i \in 1..Len(rs) |-> [c \in cols |-> rs[i][c]]]] :
      rs \in SeqsUpTo(rows, MaxRows) }

\* ------------------------------------------------------------ series ops
\* The function s on 1..n as a sequence.
AsSeq(s) == s \o <<>>

RECURSIVE SumSeq(_)
SumSeq(s) == IF s = <<>> THEN 0 ELSE Head(s) + SumSeq(Tail(s))

\* Series.sum() of a column.
ColSum(rows, c) == SumSeq([i \in 1..Len(rows) |-> rows[i][c]])

\* The values of a column, in row order.
Col(rows, c) == AsSeq([i \in 1..Len(rows) |-> rows[i][c]])

\* Series.unique(): the distinct values in order of first appearance.
RECURSIVE Unique(_)
Unique(s) ==
  IF s = <<>> THEN <<>>
  ELSE LET init == Unique(SubSeq(s, 1, Len(s) - 1))
           x == s[Len(s)]
       IN  IF \E i \in 1..Len(init) : init[i] = x THEN init ELSE Append(init, x)

\* Series.dropna()
DropNa(s) == SelectSeq(s, LAMBDA x : x # NaN)

\* Series.nunique(): the number of distinct values that are not missing.
NUnique(s) == Len(Unique(DropNa(s)))

\* x / 60 as a fraction.
Div60(x) == [num |-> x, den |-> 60]

\* --------------------------------------------------------------- load_data
\* pd.to_numeric(errors='coerce') of one cell: a number, or a text that
\* reads as one, stays; anything else becomes missing.
ToNumeric(cell) ==
  IF cell.tag = "num" THEN cell
  ELSE IF cell.tag = "text" /\ IsIntText(cell.val) THEN NumCell(IntOf(cell.val))
  ELSE BlankCell

\* fillna(0) of one cell of a numeric column.
FillNa0(cell) == IF cell.tag = "nan" THEN 0 ELSE cell.val

\* The workforce cell without astype(str): a missing cell stays missing.
AsStr_not_applied(x) == x

\* astype(str) of one workforce cell.
AsStr(x) == IF x = NaN THEN T_nan ELSE x

\* .str.split('-').str[0].str.strip() of one region cell.
ShortRegion(x) == IF x = NaN THEN NaN ELSE StrStrip(SplitFirst(x, "-"))

LoadRow(r, cols) ==
  [c \in cols |->
     IF c \in numeric_cols THEN FillNa0(ToNumeric(r[c]))
     ELSE IF c = Workforce THEN AsStr(r[c])
     ELSE IF c = Region THEN ShortRegion(r[c])
     ELSE r[c]]

\* ser.str of a column read by read_excel: a column with rows and without a
\* text cell has the dtype float64, and .str raises AttributeError on it.
StrAccessorOk(rows, c) == rows = <<>> \/ \E i \in 1..Len(rows) : rows[i][c] # NaN

\* load_data(file_path): None when the workbook is not there (FileNotFoundError),
\* a numeric column is missing (KeyError at df[numeric_cols], line 29), or the
\* region column holds no text (AttributeError at line 34).
load_data(f) ==
  IF f = None THEN None
  ELSE IF ~(numeric_cols \subseteq f.cols) THEN None
  ELSE IF Region \in f.cols /\ ~StrAccessorOk(f.rows, Region) THEN None
  ELSE [cols |-> f.cols,
        rows |-> [i \in 1..Len(f.rows) |-> LoadRow(f.rows[i], f.cols)]]

\* ------------------------------------------------------------- KPI block
\* drop_duplicates(subset=[a, b]): the first row of every (a, b).
RECURSIVE DropDuplicates(_, _, _)
DropDuplicates(rows, a, b) ==
  IF rows = <<>> THEN <<>>
  ELSE LET init == DropDuplicates(SubSeq(rows, 1, Len(rows) - 1), a, b)
           r == rows[Len(rows)]
       IN  IF \E i \in 1..Len(init) : init[i][a] = r[a] /\ init[i][b] = r[b]
           THEN init
           ELSE Append(init, r)

\* registrants without drop_duplicates: every row's registrations summed.
registrants_all_rows(rows) == ColSum(rows, Registrations)

\* line 285
registrants(rows) == ColSum(DropDuplicates(rows, WebinarId, ActualStartTime), Registrations)

\* isin(['Attendee', 'Guest']) without str.title().
IsAttendeeOrGuest_case_sensitive(x) == x \in {T_Attendee, T_Guest}

\* .str.title().isin(['Attendee', 'Guest']) of one cell
IsAttendeeOrGuest(x) == x # NaN /\ StrTitle(x) \in {T_Attendee, T_Guest}

\* line 286
attendee_filtered_df(rows) ==
  SelectSeq(rows, LAMBDA r : IsAttendeeOrGuest(r[AttendeeType]) /\ r[Attended] = T_Yes)

\* line 288, of attendee_filtered_df
nursing_facility_attendees(filtered, list) ==
  Len(SelectSeq(filtered, LAMBDA r : InList(r[Workforce], list)))

\* line 289, of attendee_filtered_df
non_nursing_facility_attendees(filtered, list) ==
  Len(SelectSeq(filtered, LAMBDA r : ~InList(r[Workforce], list)))

\* line 290, of attendee_filtered_df
total_engagement_hours(filtered) == Div60(ColSum(filtered, TimeInSession))

\* line 291
total_orgs(rows) == NUnique(Col(rows, Organization))

\* nursing_facility_orgs counted over the attended attendee rows only.
nursing_facility_orgs_attendees_only(rows, list) ==
  NUnique(Col(SelectSeq(attendee_filtered_df(rows), LAMBDA r : InList(r[Workforce], list)),
              Organization))

\* line 292
nursing_facility_orgs(rows, list) ==
  NUnique(Col(SelectSeq(rows, LAMBDA r : InList(r[Workforce], list)), Organization))

\* groupby(key)[c].last(): the value of c in the key's last row.
GroupLast(rows, key, c) ==
  LET keys == Unique(Col(rows, key))
  IN  [k \in 1..Len(keys) |->
         rows[CHOOSE i \in 1..Len(rows) :
                /\ rows[i][key] = keys[k]
                /\ \A j \in (i + 1)..Len(rows) : rows[j][key] # keys[k]][c]]

\* groupby(key)[c].first(): per key in order of first appearance, the value of
\* c in the key's first row (no cell of c is missing after load_data).
GroupFirst(rows, key, c) ==
  LET keys == Unique(Col(rows, key))
  IN  [k \in 1..Len(keys) |->
         rows[CHOOSE i \in 1..Len(rows) :
                /\ rows[i][key] = keys[k]
                /\ \A j \in 1..(i - 1) : rows[j][key] # keys[k]][c]]

\* The duration summed over the rows instead of once per webinar.
total_webinar_duration_per_row(rows) == Div60(ColSum(rows, ActualDuration))

\* line 294
total_webinar_duration(rows) == Div60(SumSeq(GroupFirst(rows, WebinarId, ActualDuration)))

\* The columns the KPI block reads (lines 285-294).
KpiCols ==
  { WebinarId, ActualStartTime, Registrations, AttendeeType, Attended, Workforce,
    TimeInSession, Organization, ActualDuration }

\* compute_kpis with line 289 reading df instead of attendee_filtered_df.
compute_kpis_unfiltered_non_nursing(rows, list) ==
  LET filtered == attendee_filtered_df(rows)
  IN  [ registrants |-> registrants(rows),
        attendees |-> Len(filtered),
        nursing_facility_attendees |-> nursing_facility_attendees(filtered, list),
        non_nursing_facility_attendees |-> non_nursing_facility_attendees(rows, list),
        total_engagement_hours |-> total_engagement_hours(filtered),
        total_orgs |-> total_orgs(rows),
        nursing_facility_orgs |-> nursing_facility_orgs(rows, list),
        non_nursing_facility_orgs |-> total_orgs(rows) - nursing_facility_orgs(rows, list),
        total_webinar_duration |-> total_webinar_duration(rows) ]

\* lines 285-294: the values handed to st.metric.
compute_kpis(rows, list) ==
  LET filtered == attendee_filtered_df(rows)
  IN  [ registrants |-> registrants(rows),
        attendees |-> Len(filtered),
        nursing_facility_attendees |-> nursing_facility_attendees(filtered, list),
        non_nursing_facility_attendees |-> non_nursing_facility_attendees(filtered, list),
        total_engagement_hours |-> total_engagement_hours(filtered),
        total_orgs |-> total_orgs(rows),
        nursing_facility_orgs |-> nursing_facility_orgs(rows, list),
        non_nursing_facility_orgs |-> total_orgs(rows) - nursing_facility_orgs(rows, list),
        total_webinar_duration |-> total_webinar_duration(rows) ]

\* --------------------------------------------------------- derived fields
\* df['year'].astype(str) + '-' + df['month'].astype(str) of one row
YearMonthText(r) == IntStr(r[Year]) \o <<"-">> \o IntStr(r[Month])

\* The text after the first occurrence of sep (empty when there is none).
RECURSIVE AfterFirst(_, _)
AfterFirst(s, sep) ==
  IF s = <<>> THEN <<>>
  ELSE IF Head(s) = sep THEN Tail(s)
  ELSE AfterFirst(Tail(s), sep)

\* pd.to_datetime accepts the text 'year-month': two numbers, the month one of
\* the twelve; anything else raises ValueError.
IsDateText(t) ==
  LET y == SplitFirst(t, "-")
      m == AfterFirst(t, "-")
  IN  /\ IsIntText(y) /\ IsIntText(m)
      /\ IntOf(y) >= 1 /\ IntOf(y) <= 9999
      /\ IntOf(m) >= 1 /\ IntOf(m) <= 12

\* str(n) padded with zeros to w characters.
RECURSIVE ZeroPad(_, _)
ZeroPad(t, w) == IF Len(t) >= w THEN t ELSE ZeroPad(<<"0">> \o t, w)

\* pd.to_datetime(text).dt.to_period('M').astype(str): 'YYYY-MM'
PeriodText(t) ==
  ZeroPad(IntStr(IntOf(SplitFirst(t, "-"))), 4) \o <<"-">>
    \o ZeroPad(IntStr(IntOf(AfterFirst(t, "-"))), 2)

\* Every row's year and month make a date.
DatesParse(rows) == \A i \in 1..Len(rows) : IsDateText(YearMonthText(rows[i]))

\* lambda x: 'Nursing Facility' if x in nursing_list else 'Non-Nursing Facility'
facility_type(x, list) == IF InList(x, list) THEN NursingFacility ELSE NonNursingFacility

\* The record set with the columns yearmonth and facility_type set
\* (lines 66-67 and 314-315).
AddDerived(d, list) ==
  [cols |-> d.cols \cup {YearMonth, FacilityType},
   rows |-> AsSeq([i \in 1..Len(d.rows) |->
               (YearMonth :> PeriodText(YearMonthText(d.rows[i])))
                 @@ (FacilityType :> facility_type(d.rows[i][Workforce], list))
                 @@ d.rows[i]])]

\* ----------------------------------------------------------- grouped tables
\* The keys of groupby(c): the values of c that are not missing, sorted.
GroupKeys(rows, c) == SortSeq(Unique(DropNa(Col(rows, c))), StrLess)

\* The keys of groupby([a, b]), sorted by a, then b.
PairLess(p, q) == StrLess(p[1], q[1]) \/ (p[1] = q[1] /\ StrLess(p[2], q[2]))

GroupKeys2(rows, a, b) ==
  SortSeq(Unique([i \in 1..Len(rows) |-> <<rows[i][a], rows[i][b]>>]), PairLess)

\* (ser.str.lower() == 'attendee') of one cell
IsAttendeeLower(x) == x # NaN /\ StrLower(x) = T_attendee

\* groupby('yearmonth').agg(total_registrants, total_attendees), lines 82-85
\* and 321-324.
MonthlyData(rows) ==
  LET keys == GroupKeys(rows, YearMonth)
  IN  [k \in 1..Len(keys) |->
         [yearmonth |-> keys[k],
          total_registrants |->
            Len(SelectSeq(rows, LAMBDA r : r[YearMonth] = keys[k] /\ IsAttendeeLower(r[AttendeeType]))),
          total_attendees |->
            Len(SelectSeq(rows, LAMBDA r : r[YearMonth] = keys[k] /\ r[Attended] = T_Yes))]]

\* line 342
attendee_guest_df(rows) == SelectSeq(rows, LAMBDA r : IsAttendeeOrGuest(r[AttendeeType]))

\* line 345
registrations_by_workforce(rows) ==
  LET keys == GroupKeys2(rows, YearMonth, FacilityType)
  IN  [k \in 1..Len(keys) |->
         [yearmonth |-> keys[k][1], facility_type |-> keys[k][2],
          registrations |->
            Len(SelectSeq(rows, LAMBDA r : /\ r[YearMonth] = keys[k][1]
                                   /\ r[FacilityType] = keys[k][2]
                                   /\ IsAttendeeLower(r[AttendeeType])))]]

\* line 346
attendance_by_workforce(rows) ==
  LET sub == SelectSeq(attendee_guest_df(rows), LAMBDA r : r[Attended] = T_Yes)
      keys == GroupKeys2(sub, YearMonth, FacilityType)
  IN  [k \in 1..Len(keys) |->
         [yearmonth |-> keys[k][1], facility_type |-> keys[k][2],
          attendance |->
            Len(SelectSeq(sub, LAMBDA r : r[YearMonth] = keys[k][1] /\ r[FacilityType] = keys[k][2]))]]

RECURSIVE Flatten(_)
Flatten(ss) == IF ss = <<>> THEN <<>> ELSE Head(ss) \o Flatten(Tail(ss))

\* The merge with how='inner': left rows without a right row are dropped.
MergeInnerFill0(left, right) ==
  Flatten([i \in 1..Len(left) |->
     LET m == SelectSeq(right, LAMBDA q : /\ q.yearmonth = left[i].yearmonth
                                          /\ q.facility_type = left[i].facility_type)
     IN  [j \in 1..Len(m) |->
            [yearmonth |-> left[i].yearmonth, facility_type |-> left[i].facility_type,
             registrations |-> left[i].registrations, attendance |-> m[j].attendance]]])

\* pd.merge(left, right, on=['yearmonth', 'facility_type'], how='left').fillna(0):
\* every left row once per right row of its key, and once with attendance 0
\* when the right table has no row of its key.
MergeLeftFill0(left, right) ==
  Flatten([i \in 1..Len(left) |->
     LET m == SelectSeq(right, LAMBDA q : /\ q.yearmonth = left[i].yearmonth
                                          /\ q.facility_type = left[i].facility_type)
     IN  IF m = <<>>
         THEN << [yearmonth |-> left[i].yearmonth, facility_type |-> left[i].facility_type,
                  registrations |-> left[i].registrations, attendance |-> 0] >>
         ELSE [j \in 1..Len(m) |->
                 [yearmonth |-> left[i].yearmonth, facility_type |-> left[i].facility_type,
                  registrations |-> left[i].registrations, attendance |-> m[j].attendance]]])

\* line 349
WorkforceDetailMonthly(rows) ==
  MergeLeftFill0(registrations_by_workforce(rows), attendance_by_workforce(rows))

\* line 94: df[attended == 'Yes'].groupby(['yearmonth', 'facility_type']).size()
\* .unstack(fill_value=0): a row per month and a column per facility type of
\* the attended rows.
PdfWorkforceDetailMonthly(rows) ==
  LET sub == SelectSeq(rows, LAMBDA r : r[Attended] = T_Yes)
      months == GroupKeys(sub, YearMonth)
      types == GroupKeys(sub, FacilityType)
  IN  [k \in 1..Len(months) |->
         [yearmonth |-> months[k],
          counts |-> [t \in {types[j] : j \in 1..Len(types)} |->
                        Len(SelectSeq(sub, LAMBDA r : r[YearMonth] = months[k] /\ r[FacilityType] = t))]]]

\* Series.count(): the cells that are not missing.
CountNotNa(rows, c) == Len(SelectSeq(rows, LAMBDA r : r[c] # NaN))

\* groupby('region').agg(registrations=('attended', 'count'),
\* attendees=('attended', lambda x: (x == 'Yes').sum())), lines 102 and 364.
RegionalPerformance(rows) ==
  LET keys == GroupKeys(rows, Region)
  IN  [k \in 1..Len(keys) |->
         [region |-> keys[k],
          registrations |-> Len(SelectSeq(rows, LAMBDA r : r[Region] = keys[k] /\ r[Attended] # NaN)),
          attendees |-> Len(SelectSeq(rows, LAMBDA r : r[Region] = keys[k] /\ r[Attended] = T_Yes))]]

\* int(r.replace('Region ', '')) of a region name
RegionKeyOk(r) == IsIntText(StrRemove(r, T_RegionPrefix))

RegionKey(r) == IntOf(StrRemove(r, T_RegionPrefix))

\* sorted(regions, key=...) raises ValueError unless every name has a number.
RegionsSortable(regions) == \A i \in 1..Len(regions) : RegionKeyOk(regions[i])

\* sorted(regions, key=lambda r: int(r.replace('Region ', ''))): stable.
RECURSIVE SortRegions(_)
SortRegions(regions) ==
  IF regions = <<>> THEN <<>>
  ELSE LET init == SortRegions(SubSeq(regions, 1, Len(regions) - 1))
           x == regions[Len(regions)]
           n == Len(SelectSeq(init, LAMBDA y : RegionKey(y) <= RegionKey(x)))
       IN  SubSeq(init, 1, n) \o <<x>> \o SubSeq(init, n + 1, Len(init))

\* df['region'].dropna().unique(), lines 121, 375 and 393
RegionValues(rows) == Unique(DropNa(Col(rows, Region)))

\* Series.value_counts(): the count of every value that occurs.
ValueCounts(rows, c) ==
  [v \in {rows[i][c] : i \in 1..Len(rows)} |-> Len(SelectSeq(rows, LAMBDA r : r[c] = v))]

\* lines 158 and 377: df[(df['region'] == region) & (df['attended'] == 'Yes')]
region_doughnut_df(rows, region) ==
  SelectSeq(rows, LAMBDA r : r[Region] # NaN /\ r[Region] = region /\ r[Attended] = T_Yes)

\* lines 176 and 395
comp_df(rows, region) ==
  SelectSeq(rows, LAMBDA r : /\ r[Region] # NaN /\ r[Region] = region
                             /\ IsAttendeeOrGuest(r[AttendeeType]))

\* lines 180-183 and 397
MonthlyComp(rows) ==
  LET keys == GroupKeys(rows, YearMonth)
  IN  [k \in 1..Len(keys) |->
         [yearmonth |-> keys[k],
          registrations |-> Len(SelectSeq(rows, LAMBDA r : r[YearMonth] = keys[k] /\ r[Attended] # NaN)),
          attendees |-> Len(SelectSeq(rows, LAMBDA r : r[YearMonth] = keys[k] /\ r[Attended] = T_Yes))]]

\* create_doughnut_chart(region): None when the region has no attended row.
create_doughnut_chart(rows, region) ==
  LET df_region == region_doughnut_df(rows, region)
  IN  IF df_region = <<>> THEN None
      ELSE [region |-> region, breakdown |-> ValueCounts(df_region, FacilityType)]

\* create_bar_chart(region): None when the region has no attendee or guest.
create_bar_chart(rows, region) ==
  LET c == comp_df(rows, region)
  IN  IF c = <<>> THEN None
      ELSE [region |-> region, monthly_comp |-> MonthlyComp(c)]

\* plot_function(region, ...) of plot_grid, by the name of the function.
plot_function(name, rows, region) ==
  IF name = "create_doughnut_chart" THEN create_doughnut_chart(rows, region)
  ELSE create_bar_chart(rows, region)

\* plot_grid: the charts placed on the page, None charts left out (line 140).
plot_grid(rows, name) ==
  LET sorted_regions == SortRegions(RegionValues(rows))
  IN  SelectSeq([i \in 1..Len(sorted_regions) |-> plot_function(name, rows, sorted_regions[i])],
                LAMBDA fig : fig # None)

\* --------------------------------------------------- create_full_report_pdf
\* lines 102-106: the bars of the regional chart, in the order of the labels.
PdfRegional(rows) ==
  LET regional_performance_t == AsSeq(RegionalPerformance(rows))
      labels == SortRegions(Col(regional_performance_t, "region"))
  IN  [i \in 1..Len(labels) |->
         [region |-> labels[i],
          registrations |->
            SumSeq(Col(SelectSeq(regional_performance_t, LAMBDA g : g.region = labels[i]),
                       "registrations")),
          attendees |->
            SumSeq(Col(SelectSeq(regional_performance_t, LAMBDA g : g.region = labels[i]),
                       "attendees"))]]

\* line 96, workforce_detail_monthly.plot(kind='bar', ...): pandas raises
\* TypeError ("no numeric data to plot") for a table without a column, which
\* is what unstack makes of an empty selection.
PlotBarOk(table) == table # <<>>

\* What a call ends with: the value returned, or the exception that leaves it.
Returned(v) == [raised |-> "", value |-> v]

Raised(e) == [raised |-> e, value |-> None]

\* create_full_report_pdf(df, logo_path, nursing_facilities_workforce, date):
\* the content of the report, section by section, for bytes(pdf.output()).
create_full_report_pdf(d, list) ==
  IF ~({Year, Month} \subseteq d.cols) THEN Returned(None)
  ELSE IF ~DatesParse(d.rows) THEN Raised("ValueError")
  ELSE IF Workforce \notin d.cols THEN Returned(None)
  ELSE IF ~({AttendeeType, Attended} \subseteq d.cols) THEN Raised("KeyError")
  ELSE IF ~PlotBarOk(PdfWorkforceDetailMonthly(AddDerived(d, list).rows))
       THEN Raised("TypeError")
  ELSE IF Region \notin d.cols THEN Raised("KeyError")
  ELSE IF ~RegionsSortable(RegionValues(d.rows)) THEN Raised("ValueError")
  ELSE LET rows == AddDerived(d, list).rows
       IN  Returned([ monthly_data |-> MonthlyData(rows),
                      workforce_detail_monthly |-> PdfWorkforceDetailMonthly(rows),
                      regional_performance |-> PdfRegional(rows),
                      doughnuts |-> plot_grid(rows, "create_doughnut_chart"),
                      bars |-> plot_grid(rows, "create_bar_chart") ])

\* ------------------------------------------------------------------- state
VARIABLES
  pc,                        \* the section the script is about to run
  file,                      \* the workbook at file_location, None when absent
  df,                        \* the record set of the dashboard
  pdf_bytes,                 \* what create_full_report_pdf returned
  kpi,                       \* the values shown by the st.metric calls
  monthly_data,
  workforce_detail_monthly,
  regional_performance,
  selected_region_doughnut,
  attendance_breakdown,
  selected_region_comp,
  monthly_comp,
  messages,                  \* the st.error / st.warning calls so far
  exception                  \* the exception that ended the run, "" when none

vars ==
  << pc, file, df, pdf_bytes, kpi, monthly_data, workforce_detail_monthly,
     regional_performance, selected_region_doughnut, attendance_breakdown,
     selected_region_comp, monthly_comp, messages, exception >>

MsgLoadError == "load_data: st.error"

MsgNotLoaded == "Data could not be loaded. Please check the file path and format."

MsgNoPdf == "PDF could not be generated."

MsgNoYearMonth == "Error: Could not find 'year' and 'month' columns for dashboard charts."

MsgNoRegion == "Column 'region' not found."

MsgNoAttendance == "No attendance data found for the selected region."

MsgNoAttendeeGuest == "No 'Attendee' or 'Guest' data found for the selected region."

MsgNoCompColumns == "One or more required columns not found for regional comparison."

\* The state before the script runs on the workbook f.
InitWith(f) ==
  /\ pc = "load_data"
  /\ file = f
  /\ df = None
  /\ pdf_bytes = None
  /\ kpi = None
  /\ monthly_data = None
  /\ workforce_detail_monthly = None
  /\ regional_performance = None
  /\ selected_region_doughnut = NaN
  /\ attendance_breakdown = None
  /\ selected_region_comp = NaN
  /\ monthly_comp = None
  /\ messages = <<>>
  /\ exception = ""

\* An uncaught exception ends the run.
Crash(e) == pc' = "crashed" /\ exception' = e

\* line 220 and the else branch of line 511
LoadData ==
  /\ pc = "load_data"
  /\ df' = load_data(file)
  /\ IF df' = None
     THEN pc' = "done" /\ messages' = messages \o <<MsgLoadError, MsgNotLoaded>>
     ELSE pc' = "pdf" /\ messages' = messages
  /\ UNCHANGED << file, pdf_bytes, kpi, monthly_data, workforce_detail_monthly,
                  regional_performance, selected_region_doughnut, attendance_breakdown,
                  selected_region_comp, monthly_comp, exception >>

\* CreatePdf with df passed instead of df.copy(): the data preparation of the
\* report (lines 66-67) then writes its columns into the dashboard's record set.
CreatePdf_without_copy ==
  /\ pc = "pdf"
  /\ LET r == create_full_report_pdf(df, nursing_list)
     IN  /\ IF r.raised # ""
            THEN Crash(r.raised) /\ UNCHANGED << pdf_bytes, messages >>
            ELSE /\ pc' = "kpi"
                 /\ pdf_bytes' = r.value
                 /\ messages' = IF r.value = None THEN Append(messages, MsgNoPdf) ELSE messages
                 /\ UNCHANGED exception
         /\ df' = IF {Year, Month, Workforce} \subseteq df.cols /\ DatesParse(df.rows)
                  THEN AddDerived(df, nursing_list)
                  ELSE df
  /\ UNCHANGED << file, kpi, monthly_data, workforce_detail_monthly,
                  regional_performance, selected_region_doughnut, attendance_breakdown,
                  selected_region_comp, monthly_comp >>

\* lines 268-279: the report is made from df.copy(); df itself is not touched.
CreatePdf ==
  /\ pc = "pdf"
  /\ LET r == create_full_report_pdf(df, nursing_list)
     IN  IF r.raised # ""
         THEN Crash(r.raised) /\ UNCHANGED << pdf_bytes, messages >>
         ELSE /\ pc' = "kpi"
              /\ pdf_bytes' = r.value
              /\ messages' = IF r.value = None THEN Append(messages, MsgNoPdf) ELSE messages
              /\ UNCHANGED exception
  /\ UNCHANGED << file, df, kpi, monthly_data, workforce_detail_monthly,
                  regional_performance, selected_region_doughnut, attendance_breakdown,
                  selected_region_comp, monthly_comp >>

\* lines 284-311
KeyPerformanceIndicators ==
  /\ pc = "kpi"
  /\ IF KpiCols \subseteq df.cols
     THEN pc' = "derive" /\ kpi' = compute_kpis(df.rows, nursing_list) /\ UNCHANGED exception
     ELSE Crash("KeyError") /\ UNCHANGED kpi
  /\ UNCHANGED << file, df, pdf_bytes, monthly_data, workforce_detail_monthly,
                  regional_performance, selected_region_doughnut, attendance_breakdown,
                  selected_region_comp, monthly_comp, messages >>

\* lines 313-317
DeriveFields ==
  /\ pc = "derive"
  /\ IF ~({Year, Month} \subseteq df.cols)
     THEN /\ pc' = "stopped"
          /\ messages' = Append(messages, MsgNoYearMonth)
          /\ UNCHANGED << df, exception >>
     ELSE IF ~DatesParse(df.rows)
     THEN Crash("ValueError") /\ UNCHANGED << df, messages >>
     ELSE /\ pc' = "monthly"
          /\ df' = AddDerived(df, nursing_list)
          /\ UNCHANGED << messages, exception >>
  /\ UNCHANGED << file, pdf_bytes, kpi, monthly_data, workforce_detail_monthly,
                  regional_performance, selected_region_doughnut, attendance_breakdown,
                  selected_region_comp, monthly_comp >>

\* lines 320-336
MonthlyAnalysis ==
  /\ pc = "monthly"
  /\ pc' = "workforce"
  /\ monthly_data' = [rows |-> MonthlyData(df.rows)]
  /\ UNCHANGED << file, df, pdf_bytes, kpi, workforce_detail_monthly,
                  regional_performance, selected_region_doughnut, attendance_breakdown,
                  selected_region_comp, monthly_comp, messages, exception >>

\* lines 339-360
WorkforceBreakdown ==
  /\ pc = "workforce"
  /\ pc' = "regional"
  /\ workforce_detail_monthly' = [rows |-> WorkforceDetailMonthly(df.rows)]
  /\ UNCHANGED << file, df, pdf_bytes, kpi, monthly_data,
                  regional_performance, selected_region_doughnut, attendance_breakdown,
                  selected_region_comp, monthly_comp, messages, exception >>

\* lines 362-371
OverallPerformanceByRegion ==
  /\ pc = "regional"
  /\ IF Region \notin df.cols
     THEN /\ pc' = "doughnut"
          /\ messages' = Append(messages, MsgNoRegion)
          /\ UNCHANGED << regional_performance, exception >>
     ELSE IF ~RegionsSortable(RegionValues(df.rows))
     THEN Crash("ValueError") /\ UNCHANGED << regional_performance, messages >>
     ELSE /\ pc' = "doughnut"
          /\ regional_performance' = [rows |-> RegionalPerformance(df.rows)]
          /\ UNCHANGED << messages, exception >>
  /\ UNCHANGED << file, df, pdf_bytes, kpi, monthly_data, workforce_detail_monthly,
                  selected_region_doughnut, attendance_breakdown,
                  selected_region_comp, monthly_comp >>

\* The value of st.selectbox(options): one of the options, the first one
\* until the user picks another; None when there is no option.
SelectboxValues(options) ==
  IF options = <<>> THEN {NaN} ELSE {options[i] : i \in 1..Len(options)}

\* lines 373-389
RegionDoughnut ==
  /\ pc = "doughnut"
  /\ IF Region \notin df.cols
     THEN /\ pc' = "comparison"
          /\ messages' = Append(messages, MsgNoRegion)
          /\ UNCHANGED << selected_region_doughnut, attendance_breakdown, exception >>
     ELSE IF ~RegionsSortable(RegionValues(df.rows))
     THEN /\ Crash("ValueError")
          /\ UNCHANGED << selected_region_doughnut, attendance_breakdown, messages >>
     ELSE \E sel \in SelectboxValues(SortRegions(RegionValues(df.rows))) :
            LET sub == region_doughnut_df(df.rows, sel)
            IN  /\ pc' = "comparison"
                /\ selected_region_doughnut' = sel
                /\ IF sub # <<>>
                   THEN /\ attendance_breakdown' = [counts |-> ValueCounts(sub, FacilityType)]
                        /\ messages' = messages
                   ELSE /\ attendance_breakdown' = attendance_breakdown
                        /\ messages' = Append(messages, MsgNoAttendance)
                /\ UNCHANGED exception
  /\ UNCHANGED << file, df, pdf_bytes, kpi, monthly_data, workforce_detail_monthly,
                  regional_performance, selected_region_comp, monthly_comp >>

\* lines 391-404
RegionComparison ==
  /\ pc = "comparison"
  /\ IF ~({Region, AttendeeType, YearMonth} \subseteq df.cols)
     THEN /\ pc' = "done"
          /\ messages' = Append(messages, MsgNoCompColumns)
          /\ UNCHANGED << selected_region_comp, monthly_comp, exception >>
     ELSE IF ~RegionsSortable(RegionValues(df.rows))
     THEN /\ Crash("ValueError")
          /\ UNCHANGED << selected_region_comp, monthly_comp, messages >>
     ELSE \E sel \in SelectboxValues(SortRegions(RegionValues(df.rows))) :
            LET sub == comp_df(df.rows, sel)
            IN  /\ pc' = "done"
                /\ selected_region_comp' = sel
                /\ IF sub # <<>>
                   THEN /\ monthly_comp' = [rows |-> MonthlyComp(sub)]
                        /\ messages' = messages
                   ELSE /\ monthly_comp' = monthly_comp
                        /\ messages' = Append(messages, MsgNoAttendeeGuest)
                /\ UNCHANGED exception
  /\ UNCHANGED << file, df, pdf_bytes, kpi, monthly_data, workforce_detail_monthly,
                  regional_performance, selected_region_doughnut, attendance_breakdown >>

Next ==
  \/ LoadData
  \/ CreatePdf
  \/ KeyPerformanceIndicators
  \/ DeriveFields
  \/ MonthlyAnalysis
  \/ WorkforceBreakdown
  \/ OverallPerformanceByRegion
  \/ RegionDoughnut
  \/ RegionComparison

\* ------------------------------------------------------------- workbooks
\* Cell values of the modelled workbooks.
V_ATTENDEE == <<"A", "T", "T", "E", "N", "D", "E", "E">>

V_gUEST == <<"g", "U", "E", "S", "T">>

V_Panelist == <<"P", "a", "n", "e", "l", "i", "s", "t">>

V_No == <<"N", "o">>

V_yes == <<"y", "e", "s">>

V_Clinic == <<"C", "l", "i", "n", "i", "c">>

V_OrgA == <<"O", "r", "g", " ", "A">>

V_OrgB == <<"O", "r", "g", " ", "B">>

V_Region1 == <<"R", "e", "g", "i", "o", "n", " ", "1">>

V_Region2East == <<"R", "e", "g", "i", "o", "n", " ", "2", " ", "-", " ", "E", "a", "s", "t">>

V_Region2 == <<"R", "e", "g", "i", "o", "n", " ", "2">>

V_Statewide == <<"S", "t", "a", "t", "e", "w", "i", "d", "e">>

V_na == <<"n", " ", "a">>

\* Minutes in session of a row of the attendance workbooks: a row that
\* attended has minutes, more for a guest and a panelist.
MinutesOf(atype, att) ==
  IF att # T_Yes THEN 0
  ELSE IF atype = V_ATTENDEE THEN 30
  ELSE IF atype = T_Guest THEN 45
  ELSE 60

\* Rows that differ in attendee type, attended and workforce.
RowsAttendance ==
  { MkRow(1, 1, 5, atype, att, wf, NumCell(MinutesOf(atype, att)), NumCell(60),
          V_OrgA, V_Region1, 2024, 1) :
      atype \in {V_ATTENDEE, T_Guest, V_gUEST, V_Panelist},
      att \in {T_Yes, V_No, V_yes},
      wf \in {NursingFacility, V_Clinic} }

\* Rows that differ in the spelling of the workforce.
RowsWorkforce ==
  { MkRow(1, 1, 5, atype, att, wf, NumCell(MinutesOf(atype, att)), NumCell(60),
          V_OrgA, V_Region1, 2024, 1) :
      atype \in {V_ATTENDEE, V_Panelist},
      att \in {T_Yes, V_No},
      wf \in {NursingFacility, StrLower(NursingFacility), NursingFacility \o <<" ">>,
              Other \o CS \o NursingFacility, V_Clinic} }

\* The two rows of the end-to-end scenario, with every value of the columns
\* the scenario does not name.
RowsScenario ==
  { MkRow(1, start, reg, V_ATTENDEE, who[1], who[2], NumCell(who[3]), NumCell(60),
          org, V_Region1, 2024, 1) :
      start \in {1, 2}, reg \in {3, 5}, org \in {V_OrgA, V_OrgB, NaN},
      who \in { <<T_Yes, NursingFacility, 30>>, <<V_No, V_Clinic, 0>> } }

\* Rows that differ in organization, workforce, attendee type and attended.
RowsOrgs ==
  { MkRow(1, 1, 5, atype, att, wf, NumCell(MinutesOf(atype, att)), NumCell(60),
          org, V_Region1, 2024, 1) :
      org \in {V_OrgA, V_OrgB, NaN}, wf \in {NursingFacility, V_Clinic},
      atype \in {V_ATTENDEE, V_Panelist}, att \in {T_Yes, V_No} }

\* Rows that differ in what the cells of the numeric columns and of workforce
\* hold: a number, a text that reads as a number, another text, nothing.
RowsCells ==
  { MkRow(1, 1, 5, V_ATTENDEE, T_Yes, wf, tis, dur, V_OrgA, V_Region1, 2024, 1) :
      tis \in {NumCell(30), TextCell(V_na), BlankCell},
      dur \in {NumCell(60), TextCell(<<"9", "0">>)},
      wf \in {NursingFacility, NaN} }

\* Rows that differ in webinar, start time, registrations and duration.
RowsSessions ==
  { MkRow(wid, start, reg, V_ATTENDEE, T_Yes, NursingFacility, NumCell(30), dur,
          V_OrgA, V_Region1, 2024, 1) :
      wid \in {1, 2}, start \in {1, 2}, reg \in {3, 5},
      dur \in {NumCell(60), NumCell(90), TextCell(V_na)} }

\* Rows that differ in month, workforce, attendee type and attended.
RowsMonthly ==
  { MkRow(1, 1, 5, atype, att, wf, NumCell(MinutesOf(atype, att)), NumCell(60),
          V_OrgA, V_Region1, 2024, m) :
      m \in {1, 2}, wf \in {NursingFacility, V_Clinic},
      atype \in {V_ATTENDEE, T_Guest, V_Panelist}, att \in {T_Yes, V_No} }

\* Rows that differ in region, month, attendee type and attended.
RowsRegions ==
  { MkRow(1, 1, 5, atype, att, NursingFacility, NumCell(MinutesOf(atype, att)),
          NumCell(60), V_OrgA, rgn, 2024, m) :
      rgn \in {V_Region1, V_Region2East, NaN}, m \in {1, 2},
      atype \in {V_ATTENDEE, V_Panelist}, att \in {T_Yes, V_No} }

\* Rows of the workbooks with missing columns and unreadable cells.
RowsInputs ==
  { MkRow(1, 1, 5, atype, T_Yes, NursingFacility, NumCell(30), NumCell(60),
          V_OrgA, rgn, 2024, m) :
      atype \in {V_ATTENDEE, V_Panelist}, rgn \in {V_Region1, V_Statewide},
      m \in {1, 13} }

\* The column sets of these workbooks: all columns, or all but one.
ColumnSets == {AllCols} \cup { AllCols \ {c} : c \in AllCols }

WorkbooksAttendance == Workbooks(RowsAttendance, AllCols)

WorkbooksWorkforce == Workbooks(RowsWorkforce, AllCols)

WorkbooksScenario == Workbooks(RowsScenario, AllCols)

WorkbooksSessions == Workbooks(RowsSessions, AllCols)

WorkbooksMonthly == Workbooks(RowsMonthly, AllCols)

WorkbooksRegions == Workbooks(RowsRegions, AllCols)

\* None: there is no workbook at file_location.
WorkbooksInputs ==
  {None} \cup UNION { Workbooks(RowsInputs, cols) : cols \in ColumnSets }

WorkbooksCells ==
  UNION { Workbooks(RowsCells, cols) :
            cols \in {AllCols, AllCols \ {Workforce}, AllCols \ {TimeInSession}} }

InitCells == \E f \in WorkbooksCells : InitWith(f)

SpecCells == InitCells /\ [][Next]_vars

WorkbooksOrgs == Workbooks(RowsOrgs, AllCols)

InitOrgs == \E f \in WorkbooksOrgs : InitWith(f)

SpecOrgs == InitOrgs /\ [][Next]_vars

InitAttendance == \E f \in WorkbooksAttendance : InitWith(f)

InitWorkforce == \E f \in WorkbooksWorkforce : InitWith(f)

InitScenario == \E f \in WorkbooksScenario : InitWith(f)

InitSessions == \E f \in WorkbooksSessions : InitWith(f)

InitMonthly == \E f \in WorkbooksMonthly : InitWith(f)

InitRegions == \E f \in WorkbooksRegions : InitWith(f)

InitInputs == \E f \in WorkbooksInputs : InitWith(f)

SpecAttendance == InitAttendance /\ [][Next]_vars

SpecWorkforce == InitWorkforce /\ [][Next]_vars

SpecScenario == InitScenario /\ [][Next]_vars

SpecSessions == InitSessions /\ [][Next]_vars

SpecMonthly == InitMonthly /\ [][Next]_vars

SpecRegions == InitRegions /\ [][Next]_vars

SpecInputs == InitInputs /\ [][Next]_vars

\* ================================================================= claims
\* The rows of the record set, by number.
RowIds == 1..Len(df.rows)

\* The set of the entries of nursing_list.
NursingSet == { nursing_list[j] : j \in 1..Len(nursing_list) }

\* The KPI block has run.
KpiShown == kpi # None

\* The attendee type of row i is Attendee or Guest once title-cased.
TitleAttendeeOrGuest(i) ==
  /\ df.rows[i][AttendeeType] # NaN
  /\ StrTitle(df.rows[i][AttendeeType]) \in {T_Attendee, T_Guest}

\* Row i is an attendee row: attendee type in {Attendee, Guest}, attended 'Yes'.
AttendeeRow(i) == TitleAttendeeOrGuest(i) /\ df.rows[i][Attended] = T_Yes

\* C1: the nursing and non-nursing attendee counts are the numbers of
\* attendee rows (attendee type in {Attendee, Guest}, attended == 'Yes') whose
\* workforce is, and is not, in the nursing list, and they add up to
\* total_attendees, the number of attendee rows.
C1_AttendeePartition ==
  KpiShown =>
    LET A == { i \in RowIds : AttendeeRow(i) }
    IN  /\ kpi.attendees = Cardinality(A)
        /\ kpi.nursing_facility_attendees
             = Cardinality({ i \in A : df.rows[i][Workforce] \in NursingSet })
        /\ kpi.non_nursing_facility_attendees
             = Cardinality({ i \in A : df.rows[i][Workforce] \notin NursingSet })
        /\ kpi.nursing_facility_attendees + kpi.non_nursing_facility_attendees
             = kpi.attendees

\* A record set with one attendee row of each kind.
C1_Witness ==
  /\ KpiShown
  /\ kpi.nursing_facility_attendees = 1
  /\ kpi.non_nursing_facility_attendees = 1

\* The attendee type of row i is ATTENDEE or GUEST, compared without case.
AllowedTypeIgnoringCase(i) ==
  /\ df.rows[i][AttendeeType] # NaN
  /\ StrLower(df.rows[i][AttendeeType]) \in {StrLower(V_ATTENDEE), StrLower(T_Guest)}

\* C3: total_attendees is the number of records whose attendee type is, without
\* regard to case, ATTENDEE or GUEST and whose attended value is exactly 'Yes'.
C3_TotalAttendees ==
  KpiShown =>
    kpi.attendees
      = Cardinality({ i \in RowIds :
                        AllowedTypeIgnoringCase(i) /\ df.rows[i][Attended] = T_Yes })

\* An upper-case ATTENDEE row is counted, a row that attended 'yes' is not.
C3_Witness ==
  /\ KpiShown
  /\ kpi.attendees = 1
  /\ \E i \in RowIds : df.rows[i][AttendeeType] = V_ATTENDEE /\ df.rows[i][Attended] = T_Yes
  /\ \E i \in RowIds : AllowedTypeIgnoringCase(i) /\ df.rows[i][Attended] = V_yes

\* The record set is the two rows of the end-to-end scenario.
IsScenario ==
  /\ df # None
  /\ Len(df.rows) = 2
  /\ \A i \in {1, 2} :
       /\ df.rows[i][WebinarId] = 1
       /\ df.rows[i][Region] = V_Region1
       /\ df.rows[i][Year] = 2024 /\ df.rows[i][Month] = 1
       /\ df.rows[i][AttendeeType] = V_ATTENDEE
       /\ df.rows[i][ActualDuration] = 60
  /\ df.rows[1][Workforce] = NursingFacility
  /\ df.rows[1][Attended] = T_Yes
  /\ df.rows[1][TimeInSession] = 30
  /\ df.rows[2][Workforce] = V_Clinic
  /\ df.rows[2][Attended] = V_No
  /\ df.rows[2][TimeInSession] = 0

\* The fraction q is the number a / b.
FractionIs(q, a, b) == q.num * b = a * q.den

\* C9: on the two rows of the end-to-end scenario the KPI block yields
\* total_attendees 1, nursing_facility_attendees 1, non_nursing_facility_attendees
\* 0, total_engagement_hours 0.5 and total_session_duration_hours 1.0.
C9_Scenario ==
  (KpiShown /\ IsScenario) =>
    /\ kpi.attendees = 1
    /\ kpi.nursing_facility_attendees = 1
    /\ kpi.non_nursing_facility_attendees = 0
    /\ FractionIs(kpi.total_engagement_hours, 1, 2)
    /\ FractionIs(kpi.total_webinar_duration, 1, 1)

\* The KPI block has run on the scenario.
C9_Witness == KpiShown /\ IsScenario /\ pc = "derive"

\* The sum of f[i] over the finite set S of row numbers.
RECURSIVE SumOver(_, _)
SumOver(S, f) ==
  IF S = {} THEN 0
  ELSE LET i == CHOOSE j \in S : TRUE IN f[i] + SumOver(S \ {i}, f)

\* Row i is the first row of its session (webinar id, actual start time).
FirstOfSession(i) ==
  \A j \in 1..(i - 1) :
    \/ df.rows[j][WebinarId] # df.rows[i][WebinarId]
    \/ df.rows[j][ActualStartTime] # df.rows[i][ActualStartTime]

\* C4: total_registrants is the sum, over the distinct sessions (webinar id,
\* actual start time), of the registrations value of the session's first row;
\* a further row of a session that is already there adds nothing.
C4_SessionRegistrants ==
  KpiShown =>
    /\ kpi.registrants
         = SumOver({ i \in RowIds : FirstOfSession(i) },
                   [i \in RowIds |-> df.rows[i][Registrations]])
    /\ (Len(df.rows) > 0 /\ \A i \in RowIds : ~FirstOfSession(i) \/ i = 1)
         => kpi.registrants = df.rows[1][Registrations]

\* Two rows of one session with different registrations: the first one counts.
C4_Witness ==
  /\ KpiShown
  /\ Len(df.rows) = 2
  /\ ~FirstOfSession(2)
  /\ df.rows[1][Registrations] = 3
  /\ df.rows[2][Registrations] = 5
  /\ kpi.registrants = 3

\* Row i is the first row of its webinar id.
FirstOfWebinar(i) == \A j \in 1..(i - 1) : df.rows[j][WebinarId] # df.rows[i][WebinarId]

\* C5: total_session_duration_hours is the sum, over the distinct webinar ids,
\* of the duration of the webinar's first row, divided by 60: further rows of a
\* webinar, whatever their duration, add nothing.
C5_DurationOncePerWebinar ==
  KpiShown =>
    /\ kpi.total_webinar_duration.den = 60
    /\ kpi.total_webinar_duration.num
         = SumOver({ i \in RowIds : FirstOfWebinar(i) },
                   [i \in RowIds |-> df.rows[i][ActualDuration]])

\* Two rows of one webinar with durations 60 and 90: 60 minutes are counted.
C5_Witness ==
  /\ KpiShown
  /\ Len(df.rows) = 2
  /\ df.rows[1][WebinarId] = df.rows[2][WebinarId]
  /\ df.rows[1][ActualDuration] = 60
  /\ df.rows[2][ActualDuration] = 90
  /\ FractionIs(kpi.total_webinar_duration, 1, 1)

\* The loaded record set lacks 'year' or 'month'.
YearOrMonthAbsent == df # None /\ ~({Year, Month} \subseteq df.cols)

\* C2: when 'year' or 'month' is absent from the loaded record set, no KPI value
\* is computed or displayed in the run: the missing-column error comes before
\* any aggregation.
C2_NoKpiBeforeMissingColumnError == YearOrMonthAbsent => kpi = None

\* The derived columns have been added to the record set.
Derived == df # None /\ FacilityType \in df.cols

\* The text w is not in the nursing list, but is an entry of it up to the case
\* of its letters or up to blanks at its end.
NearMiss(w) ==
  /\ w \notin NursingSet
  /\ \E n \in NursingSet : StrLower(w) = StrLower(n) \/ RStrip(w) = n

\* C6: a row's facility type is 'Nursing Facility' exactly when its workforce
\* is an element of the nursing list, and 'Non-Nursing Facility' otherwise; a
\* workforce that differs from an entry only by case or by a trailing blank is
\* 'Non-Nursing Facility'; the nursing attendee KPI counts by the same test.
C6_ExactListMembership ==
  /\ Derived =>
       \A i \in RowIds :
         /\ df.rows[i][FacilityType] = NursingFacility
              <=> df.rows[i][Workforce] \in NursingSet
         /\ df.rows[i][FacilityType] \in {NursingFacility, NonNursingFacility}
         /\ NearMiss(df.rows[i][Workforce])
              => df.rows[i][FacilityType] = NonNursingFacility
  /\ KpiShown =>
       kpi.nursing_facility_attendees
         = Cardinality({ i \in RowIds :
                           AttendeeRow(i) /\ df.rows[i][Workforce] \in NursingSet })

\* An attended row spelt 'nursing facility' next to one spelt as in the list:
\* one nursing attendee, and the former is classified non-nursing.
C6_Witness ==
  /\ Derived
  /\ KpiShown
  /\ Len(df.rows) = 2
  /\ df.rows[1][Workforce] = StrLower(NursingFacility)
  /\ df.rows[1][FacilityType] = NonNursingFacility
  /\ df.rows[2][Workforce] = NursingFacility
  /\ df.rows[2][FacilityType] = NursingFacility
  /\ AttendeeRow(1) /\ AttendeeRow(2)
  /\ kpi.nursing_facility_attendees = 1

\* The group key (yearmonth, facility_type) of row i.
WorkforceKey(i) == << df.rows[i][YearMonth], df.rows[i][FacilityType] >>

\* The keys of the registrations aggregate: it groups every row.
RegistrationKeys == { WorkforceKey(i) : i \in RowIds }

\* The keys of the attendance aggregate: it groups the attended rows of
\* attendees and guests.
AttendanceKeys == { WorkforceKey(i) : i \in { j \in RowIds : AttendeeRow(j) } }

\* C7: the merged monthly workforce table has exactly one row for every group
\* key (yearmonth, facility_type) of the registrations aggregate or of the
\* attendance aggregate; the row carries the registrations count and the
\* attendance count of its group, and attendance is 0 for a group without
\* attendance rows.
C7_MergedWorkforceTable ==
  workforce_detail_monthly # None =>
    LET t == workforce_detail_monthly.rows
    IN  /\ { << t[k].yearmonth, t[k].facility_type >> : k \in 1..Len(t) }
             = RegistrationKeys \cup AttendanceKeys
        /\ Len(t) = Cardinality(RegistrationKeys \cup AttendanceKeys)
        /\ \A k \in 1..Len(t) :
             LET key == << t[k].yearmonth, t[k].facility_type >>
             IN  /\ t[k].registrations
                      = Cardinality({ i \in RowIds :
                                        /\ WorkforceKey(i) = key
                                        /\ StrLower(df.rows[i][AttendeeType]) = T_attendee })
                 /\ t[k].attendance
                      = Cardinality({ i \in RowIds : WorkforceKey(i) = key /\ AttendeeRow(i) })
                 /\ key \notin AttendanceKeys => t[k].attendance = 0

\* One group with a registration and no attendance row, next to a group with
\* an attendance row.
C7_Witness ==
  /\ workforce_detail_monthly # None
  /\ LET t == workforce_detail_monthly.rows
     IN  /\ Len(t) = 2
         /\ \E k \in 1..2 : t[k].registrations = 1 /\ t[k].attendance = 0
         /\ \E k \in 1..2 : t[k].attendance = 1

\* C8: the monthly attendance counts use the attendee filter of the KPIs: the
\* total_attendees of the Monthly Analysis table, summed over its yearmonth
\* groups, is the KPI total_attendees.
C8_MonthlyAttendeesAreKpiAttendees ==
  (monthly_data # None /\ KpiShown) =>
    LET t == monthly_data.rows
    IN  SumOver(1..Len(t), [k \in 1..Len(t) |-> t[k].total_attendees]) = kpi.attendees

\* The message m has been shown.
Shown(m) == \E k \in 1..Len(messages) : messages[k] = m

\* The rows the doughnut of region r is drawn from: the attended rows of r.
DoughnutRows(r) ==
  { i \in RowIds : df.rows[i][Region] = r /\ r # NaN /\ df.rows[i][Attended] = T_Yes }

\* The rows the comparison of region r is drawn from: its attendees and guests.
ComparisonRows(r) ==
  { i \in RowIds : df.rows[i][Region] = r /\ r # NaN /\ TitleAttendeeOrGuest(i) }

\* The regions of the charts of a PDF grid.
ChartRegions(charts) == { charts[k].region : k \in 1..Len(charts) }

\* The regions named in the record set.
RegionsOfRows == { df.rows[i][Region] : i \in RowIds } \ {NaN}

\* Some region of the record set has no attended row, or no attendee or guest.
SomeRegionWithoutRows ==
  \E r \in RegionsOfRows : DoughnutRows(r) = {} \/ ComparisonRows(r) = {}

\* C10: a region selection that matches no row gives a warning and no chart in
\* the dashboard, and no chart in the grids of the PDF; no exception is raised,
\* the run does not stop, and the other tables and the PDF are produced.
C10_EmptySelectionIsNoData ==
  df # None =>
    /\ SomeRegionWithoutRows => exception = "" /\ pc \notin {"crashed", "stopped"}
    /\ pc \in {"comparison", "done"} =>
         IF DoughnutRows(selected_region_doughnut) = {}
         THEN attendance_breakdown = None /\ Shown(MsgNoAttendance)
         ELSE attendance_breakdown # None /\ ~Shown(MsgNoAttendance)
    /\ pc = "done" =>
         /\ IF ComparisonRows(selected_region_comp) = {}
            THEN monthly_comp = None /\ Shown(MsgNoAttendeeGuest)
            ELSE monthly_comp # None /\ ~Shown(MsgNoAttendeeGuest)
         /\ kpi # None /\ monthly_data # None /\ workforce_detail_monthly # None
         /\ regional_performance # None
    /\ pc \in {"kpi", "derive", "monthly", "workforce", "regional", "doughnut",
               "comparison", "done"} =>
         /\ pdf_bytes # None
         /\ ChartRegions(pdf_bytes.doughnuts) = { r \in RegionsOfRows : DoughnutRows(r) # {} }
         /\ ChartRegions(pdf_bytes.bars) = { r \in RegionsOfRows : ComparisonRows(r) # {} }
         /\ Len(pdf_bytes.regional_performance) = Cardinality(RegionsOfRows)

\* The organizations named in the rows of the set S.
OrgsOf(S) == { df.rows[i][Organization] : i \in S } \ {NaN}

\* C11: total_organizations is the number of distinct organizations of all
\* records, nursing_facility_organizations the number of distinct
\* organizations with a record (attendee or not) whose workforce is in the
\* nursing list; the two sub-counts add up to the total and neither is
\* negative.
C11_OrganizationPartition ==
  KpiShown =>
    /\ kpi.total_orgs = Cardinality(OrgsOf(RowIds))
    /\ kpi.nursing_facility_orgs
         = Cardinality(OrgsOf({ i \in RowIds : df.rows[i][Workforce] \in NursingSet }))
    /\ kpi.nursing_facility_orgs + kpi.non_nursing_facility_orgs = kpi.total_orgs
    /\ kpi.nursing_facility_orgs >= 0
    /\ kpi.non_nursing_facility_orgs >= 0

\* Two organizations: one with a nursing record of a panelist, one with a
\* non-nursing record of an attendee.
C11_Witness ==
  /\ KpiShown
  /\ Len(df.rows) = 2
  /\ df.rows[1][Workforce] \in NursingSet /\ ~AttendeeRow(1)
  /\ df.rows[2][Workforce] \notin NursingSet /\ AttendeeRow(2)
  /\ df.rows[1][Organization] # df.rows[2][Organization]
  /\ kpi.total_orgs = 2
  /\ kpi.nursing_facility_orgs = 1
  /\ kpi.non_nursing_facility_orgs = 1

\* C12: a record set returned by load_data has both numeric columns, and they
\* hold numbers only: the number of the workbook cell, or 0 where the cell was
\* empty or unreadable; its workforce column, when there is one, holds text
\* only, a missing cell having become the text 'nan'.
C12_NoNullAfterLoad ==
  df # None =>
    /\ numeric_cols \subseteq df.cols
    /\ Len(df.rows) = Len(file.rows)
    /\ \A i \in RowIds : \A c \in numeric_cols :
         /\ df.rows[i][c] \in Nat
         /\ file.rows[i][c].tag = "num" => df.rows[i][c] = file.rows[i][c].val
         /\ file.rows[i][c].tag = "nan" => df.rows[i][c] = 0
         /\ (file.rows[i][c].tag = "text" /\ file.rows[i][c].val = V_na) => df.rows[i][c] = 0
    /\ Workforce \in df.cols =>
         \A i \in RowIds :
           /\ df.rows[i][Workforce] # NaN
           /\ file.rows[i][Workforce] = NaN => df.rows[i][Workforce] = T_nan
           /\ file.rows[i][Workforce] # NaN => df.rows[i][Workforce] = file.rows[i][Workforce]

\* A loaded row whose time in session was empty, whose duration was the text
\* '90' and whose workforce was missing.
C12_Witness ==
  /\ df # None
  /\ Workforce \in df.cols
  /\ \E i \in RowIds :
       /\ file.rows[i][TimeInSession] = BlankCell
       /\ file.rows[i][ActualDuration].tag = "text"
       /\ file.rows[i][Workforce] = NaN
       /\ df.rows[i][TimeInSession] = 0
       /\ df.rows[i][ActualDuration] = 90
       /\ df.rows[i][Workforce] = T_nan

\* What a step of the run may do to the loaded record set: add the columns
\* yearmonth and facility_type in the derived-field step, and nothing else.
AppendOnlyStep ==
  df # None =>
    /\ df' # None
    /\ pc # "derive" => df' = df
    /\ Len(df'.rows) = Len(df.rows)
    /\ df.cols \subseteq df'.cols
    /\ df'.cols \subseteq df.cols \cup {YearMonth, FacilityType}
    /\ \A i \in 1..Len(df.rows) : \A c \in df.cols : df'.rows[i][c] = df.rows[i][c]
    /\ KpiCols \subseteq df.cols
         => compute_kpis(df'.rows, nursing_list) = compute_kpis(df.rows, nursing_list)

\* C13: once loaded, the record set is only enriched: the PDF step leaves it
\* as it is, the derived-field step adds the columns yearmonth and
\* facility_type and changes neither the number of rows nor a value of a
\* column that was there, and the KPIs of the record set are the same after
\* the step as before.
C13_AppendOnlyEnrichment == [][AppendOnlyStep]_vars

\* The derived fields were added after the report was made and the KPIs shown.
C13_Witness ==
  /\ pc = "monthly"
  /\ pdf_bytes # None
  /\ KpiShown
  /\ Len(df.rows) = 2
  /\ df.cols = file.cols \cup {YearMonth, FacilityType}
  /\ compute_kpis(df.rows, nursing_list) = kpi

\* The attendance count of the group (ym, ft) in the report's 'Detailed
\* Monthly Workforce Breakdown': 0 for a group the table does not hold.
PdfAttendance(ym, ft) ==
  LET t == pdf_bytes.workforce_detail_monthly
      hits == { k \in 1..Len(t) : t[k].yearmonth = ym /\ ft \in DOMAIN t[k].counts }
  IN  IF hits = {} THEN 0 ELSE t[CHOOSE k \in hits : TRUE].counts[ft]

\* The rows of a table, whatever their order.
RowSet(t) == { t[k] : k \in 1..Len(t) }

\* C15: the report and the dashboard show the same grouped tables: every group
\* (yearmonth, facility_type) has the same attendance count in the report's
\* monthly workforce table as in the dashboard's merged table, and the monthly
\* and the regional table of the report are those of the dashboard.
C15_PdfTablesAreDashboardTables ==
  pdf_bytes # None =>
    /\ workforce_detail_monthly # None =>
         \A k \in 1..Len(workforce_detail_monthly.rows) :
           LET row == workforce_detail_monthly.rows[k]
           IN  PdfAttendance(row.yearmonth, row.facility_type) = row.attendance
    /\ monthly_data # None => pdf_bytes.monthly_data = monthly_data.rows
    /\ regional_performance # None =>
         RowSet(pdf_bytes.regional_performance) = RowSet(regional_performance.rows)

====
